---- MODULE Spec2Model ----
(***************************************************************************)
(* Model of palette.py: the generator of the 1024-entry Mandelbrot colour  *)
(* palette.  Three PCHIP interpolators are built from six colour stops,    *)
(* sampled at j/1024, truncated, packed into one word per sample and       *)
(* written to palette.txt as a Rust array literal; the number of distinct  *)
(* packed words is printed at the end.                                     *)
(*                                                                         *)
(* Numbers.  TLC's integers are 32 bits wide, while Python's int is        *)
(* unbounded and the interpolation is done on reals.  Both are modelled    *)
(* exactly: big naturals are little-endian sequences of limbs in base      *)
(* Base, integers carry a sign, and the interpolation runs on rationals n/d*)
(* of such integers.  The double rounding of the floating-point library is *)
(* not modelled: the sampled values are the exact ones.                    *)
(***************************************************************************)
EXTENDS Integers, Sequences, FiniteSets, TLC

Base == 10000

Max(a, b) == IF a >= b THEN a ELSE b

Min(a, b) == IF a <= b THEN a ELSE b

(* ---------------- big naturals ---------------- *)

Limb(a, i) == IF i <= Len(a) THEN a[i] ELSE 0

RECURSIVE Strip(_)
Strip(a) == IF a = <<>> \/ a[Len(a)] # 0 THEN a ELSE Strip(SubSeq(a, 1, Len(a) - 1))

\* carry propagation over limbs of any (small) size; the total is >= 0
RECURSIVE Propagate(_, _, _)
Propagate(a, i, c) ==
    IF i > Len(a)
    THEN IF c = 0 THEN <<>> ELSE <<c % Base>> \o Propagate(a, i, c \div Base)
    ELSE <<(a[i] + c) % Base>> \o Propagate(a, i + 1, (a[i] + c) \div Base)

MagOf(n) == Propagate(<<>>, 1, n)

MagAdd(a, b) ==
    Propagate([i \in 1..Max(Len(a), Len(b)) |-> Limb(a, i) + Limb(b, i)], 1, 0)

\* a - b for a >= b
MagSub(a, b) ==
    Strip(Propagate([i \in 1..Len(a) |-> a[i] - Limb(b, i)], 1, 0))

RECURSIVE Conv(_, _, _, _)
Conv(a, b, k, i) ==
    IF i > Len(a) \/ i > k THEN 0
    ELSE (IF k - i + 1 <= Len(b) THEN a[i] * b[k - i + 1] ELSE 0) + Conv(a, b, k, i + 1)

MagMul(a, b) ==
    IF a = <<>> \/ b = <<>> THEN <<>>
    ELSE Propagate([k \in 1..(Len(a) + Len(b) - 1) |-> Conv(a, b, k, 1)], 1, 0)

RECURSIVE CmpFrom(_, _, _)
CmpFrom(a, b, i) ==
    IF i = 0 THEN 0
    ELSE IF a[i] > b[i] THEN 1
    ELSE IF a[i] < b[i] THEN -1
    ELSE CmpFrom(a, b, i - 1)

\* -1, 0, 1 as a < b, a = b, a > b
MagCmp(a, b) ==
    IF Len(a) > Len(b) THEN 1
    ELSE IF Len(a) < Len(b) THEN -1
    ELSE CmpFrom(a, b, Len(a))

\* the value of the limbs from i upward, for a value below 2^31
RECURSIVE MagVal(_, _)
MagVal(a, i) == IF i > Len(a) THEN 0 ELSE a[i] + Base * MagVal(a, i + 1)

(* ---------------- signed integers: [s |-> sign, m |-> magnitude] ---------------- *)

Sgn(n) == IF n > 0 THEN 1 ELSE IF n < 0 THEN -1 ELSE 0

ZOf(n) == [s |-> Sgn(n), m |-> MagOf(IF n < 0 THEN -n ELSE n)]

ZNeg(a) == [s |-> -a.s, m |-> a.m]

\* a + b for a and b of opposite signs, c comparing their magnitudes
ZCancel(a, b, c) ==
    IF c = 0 THEN [s |-> 0, m |-> <<>>]
    ELSE IF c = 1 THEN [s |-> a.s, m |-> MagSub(a.m, b.m)]
    ELSE [s |-> b.s, m |-> MagSub(b.m, a.m)]

ZAdd(a, b) ==
    IF a.s = 0 THEN b
    ELSE IF b.s = 0 THEN a
    ELSE IF a.s = b.s THEN [s |-> a.s, m |-> MagAdd(a.m, b.m)]
    ELSE ZCancel(a, b, MagCmp(a.m, b.m))

ZMul(a, b) == [s |-> a.s * b.s, m |-> MagMul(a.m, b.m)]

ZMulMag(a, m) == [s |-> IF m = <<>> THEN 0 ELSE a.s, m |-> MagMul(a.m, m)]

(* ---------------- division of big naturals ---------------- *)

\* a * k for a machine integer k with k * Base below 2^31
Scale(a, k) ==
    IF k = 0 THEN <<>> ELSE Propagate([i \in 1..Len(a) |-> a[i] * k], 1, 0)

\* division by a machine integer k with k * Base below 2^31: [q, r]
RECURSIVE DivSmall(_, _, _, _, _)
DivSmall(n, k, i, q, r) ==
    IF i = 0 THEN [q |-> Strip(q), r |-> r]
    ELSE IF r * Base + n[i] < k THEN DivSmall(n, k, i - 1, <<0>> \o q, r * Base + n[i])
    ELSE DivSmall(n, k, i - 1, <<(r * Base + n[i]) \div k>> \o q, (r * Base + n[i]) % k)

MagDivSmall(n, k) == DivSmall(n, k, Len(n), <<>>, 0)

\* the largest q <= qhat with d * q <= cur
RECURSIVE Correct(_, _, _)
Correct(cur, d, qhat) ==
    IF MagCmp(Scale(d, qhat), cur) <= 0 THEN qhat ELSE Correct(cur, d, qhat - 1)

\* one digit of the quotient (Knuth 4.3.1 D): for cur < d * Base and the leading
\* limb of d at least Base / 2, the estimate from the leading limbs is at most 2
\* too large
QuotDigit(cur, d) ==
    IF MagCmp(cur, d) = -1 THEN 0
    ELSE Correct(cur, d, Min((cur[Len(d)] + Base * Limb(cur, Len(d) + 1)) \div d[Len(d)],
                             Base - 1))

\* schoolbook long division from limb i of n downward, r being the part of n
\* above limb i reduced below d: [q, r] with n = d * q + r
RECURSIVE LongDiv(_, _, _, _, _)

\* the digit qd of cur goes before q, what is left of cur goes on
DivStep(n, d, i, q, cur, qd) ==
    IF qd = 0 THEN LongDiv(n, d, i - 1, <<0>> \o q, cur)
    ELSE LongDiv(n, d, i - 1, <<qd>> \o q, MagSub(cur, Scale(d, qd)))

DivDigit(n, d, i, q, cur) == DivStep(n, d, i, q, cur, QuotDigit(cur, d))

LongDiv(n, d, i, q, r) ==
    IF i = 0 THEN [q |-> Strip(q), r |-> r]
    ELSE DivDigit(n, d, i, q, Strip(<<n[i]>> \o r))

\* res is [q, r] of numbers scaled by k
Unscale(res, k) == [q |-> res.q, r |-> MagDivSmall(res.r, k).q]

\* the limbs of nn above limb i give no quotient digit
DivFrom(nn, dd, i) == LongDiv(nn, dd, i, <<>>, SubSeq(nn, i + 1, Len(nn)))

\* n and d scaled by k, which brings the leading limb of d up to Base / 2
Normalise(n, d, k) ==
    Unscale(DivFrom(Scale(n, k), Scale(d, k), Len(Scale(n, k)) - Len(d) + 1), k)

\* [q, r] with n = d * q + r and r < d, for d # 0
MagDivMod(n, d) ==
    IF MagCmp(n, d) = -1 THEN [q |-> <<>>, r |-> n]
    ELSE Normalise(n, d, Base \div (d[Len(d)] + 1))

\* one step of Euclid's algorithm on the pair p, none once it has ended
GcdStep(p) == IF p[2] = <<>> THEN p ELSE <<p[2], MagDivMod(p[1], p[2]).r>>

\* up to k >= 1 steps of Euclid's algorithm, the second half of them on the
\* result of the first half
RECURSIVE GcdLoop(_, _)
GcdLoop(p, k) ==
    IF p[2] = <<>> THEN p
    ELSE IF k = 1 THEN GcdStep(p)
    ELSE GcdLoop(GcdLoop(p, k \div 2), k - k \div 2)

\* Lame: at most five steps for each decimal digit of the smaller number, after
\* one step that may only swap the two
MagGcd(a, b) == GcdLoop(<<a, b>>, 20 * Min(Len(a), Len(b)) + 1)[1]

\* Python's // and % by a positive machine integer: floor division
FloorOf(a, dm) ==
    IF a.s >= 0 THEN [s |-> IF dm.q = <<>> THEN 0 ELSE 1, m |-> dm.q]
    ELSE IF dm.r = 0 THEN [s |-> -1, m |-> dm.q]
    ELSE [s |-> -1, m |-> MagAdd(dm.q, MagOf(1))]

ZFloorDiv(a, k) == FloorOf(a, MagDivSmall(a.m, k))

ModOf(a, k, r) == IF a.s >= 0 \/ r = 0 THEN r ELSE k - r

ZMod(a, k) == ModOf(a, k, MagDivSmall(a.m, k).r)

(* ---------------- rationals: [n |-> signed integer, d |-> magnitude > 0] ---------------- *)

\* p with n and d divided by their common divisor g
Lowest(p, g) ==
    IF g = <<1>> THEN p
    ELSE [n |-> [s |-> p.n.s, m |-> MagDivMod(p.n.m, g).q], d |-> MagDivMod(p.d, g).q]

\* p in lowest terms
Reduce(p) ==
    IF p.n.s = 0 THEN [n |-> p.n, d |-> <<1>>] ELSE Lowest(p, MagGcd(p.n.m, p.d))

RECURSIVE Gcd(_, _)
Gcd(a, b) == IF b = 0 THEN a ELSE Gcd(b, a % b)

RatOver(p, q, g) == [n |-> ZOf(p \div g), d |-> MagOf(q \div g)]

\* p / q in lowest terms, for machine integers p and q > 0
Rat(p, q) == RatOver(p, q, Gcd(IF p < 0 THEN -p ELSE p, q))

RSign(p) == p.n.s

RNeg(p) == [n |-> ZNeg(p.n), d |-> p.d]

\* the sum, the product and the quotient are not reduced
RAdd(p, q) ==
    IF p.n.s = 0 THEN q
    ELSE IF q.n.s = 0 THEN p
    ELSE [n |-> ZAdd(ZMulMag(p.n, q.d), ZMulMag(q.n, p.d)), d |-> MagMul(p.d, q.d)]

RSub(p, q) == RAdd(p, RNeg(q))

RMul(p, q) ==
    IF p.n.s = 0 \/ q.n.s = 0 THEN Rat(0, 1)
    ELSE [n |-> [s |-> p.n.s * q.n.s, m |-> MagMul(p.n.m, q.n.m)], d |-> MagMul(p.d, q.d)]

\* 1 / q for q # 0
RInv(q) == [n |-> [s |-> q.n.s, m |-> q.d], d |-> q.n.m]

\* p / q for q # 0
RDiv(p, q) == RMul(p, RInv(q))

RAbs(p) == [n |-> [s |-> p.n.s * p.n.s, m |-> p.n.m], d |-> p.d]

\* -1, 0, 1 as p < q, p = q, p > q
RCmp(p, q) ==
    IF p.n.s # q.n.s THEN (IF p.n.s < q.n.s THEN -1 ELSE 1)
    ELSE p.n.s * MagCmp(MagMul(p.n.m, q.d), MagMul(q.n.m, p.d))

RLeq(p, q) == RCmp(p, q) <= 0

RLess(p, q) == RCmp(p, q) < 0

\* floor(n / d), a machine integer
MagQuot(n, d) == MagVal(MagDivMod(n, d).q, 1)

\* int(p): truncation toward zero
Trunc(p) == p.n.s * MagQuot(p.n.m, p.d)

(* ---------------- the stops (palette.py lines 9-12) ---------------- *)

x == <<Rat(0, 1), Rat(16, 100), Rat(42, 100), Rat(6425, 10000), Rat(8575, 10000), Rat(1, 1)>>
yr == <<0, 32, 237, 255, 0, 0>>
yg == <<7, 107, 255, 170, 2, 7>>
yb == <<100, 203, 255, 0, 0, 100>>

(* ---------------- PchipInterpolator (palette.py lines 7, 14-16) ---------------- *)

\* hk = x[1:] - x[:-1]
RECURSIVE hkFrom(_, _)
hkFrom(xs, i) ==
    IF i >= Len(xs) THEN <<>>
    ELSE <<Reduce(RSub(xs[i + 1], xs[i]))>> \o hkFrom(xs, i + 1)

hk(xs) == hkFrom(xs, 1)

\* mk = (y[1:] - y[:-1]) / hk
RECURSIVE mkFrom(_, _, _)
mkFrom(ys, h, i) ==
    IF i > Len(h) THEN <<>>
    ELSE <<Reduce(RDiv(Rat(ys[i + 1] - ys[i], 1), h[i]))>> \o mkFrom(ys, h, i + 1)

mk(ys, h) == mkFrom(ys, h, 1)

\* the end estimate d limited to preserve shape
Limited(d, m0, m1) ==
    IF RSign(d) # RSign(m0) THEN Rat(0, 1)
    ELSE IF RSign(m0) # RSign(m1) /\ RLess(RMul(Rat(3, 1), RAbs(m0)), RAbs(d))
         THEN RMul(Rat(3, 1), m0)
         ELSE d

\* one-sided three-point estimate of an end derivative:
\* ((2 h0 + h1) m0 - h0 m1) / (h0 + h1), limited
edge_case(h0, h1, m0, m1) ==
    Limited(Reduce(RDiv(RSub(RMul(RAdd(RMul(Rat(2, 1), h0), h1), m0), RMul(h0, m1)),
                        RAdd(h0, h1))),
            m0, m1)

\* (w1 / m0 + w2 / m1) / (w1 + w2)
whmean(w1, w2, m0, m1) == RDiv(RAdd(RDiv(w1, m0), RDiv(w2, m1)), RAdd(w1, w2))

\* the plain mean of the two adjacent slopes, with no regard to their signs
arithmetic_mean(h0, h1, m0, m1) == Reduce(RMul(Rat(1, 2), RAdd(m0, m1)))

\* the derivative at an interior stop: 0 at a local extremum or beside a flat
\* segment, else the weighted harmonic mean of the two adjacent slopes, with
\* w1 = 2 h1 + h0 and w2 = h1 + 2 h0
interior(h0, h1, m0, m1) ==
    IF RSign(m1) # RSign(m0) \/ RSign(m1) = 0 \/ RSign(m0) = 0 THEN Rat(0, 1)
    ELSE Reduce(RInv(whmean(RAdd(RMul(Rat(2, 1), h1), h0),
                            RAdd(h1, RMul(Rat(2, 1), h0)), m0, m1)))

RECURSIVE dkFrom(_, _, _)
dkFrom(h, m, k) ==
    IF k > Len(m) + 1 THEN <<>>
    ELSE << IF k = 1 THEN edge_case(h[1], h[2], m[1], m[2])
            ELSE IF k = Len(m) + 1
                 THEN edge_case(h[k - 1], h[k - 2], m[k - 1], m[k - 2])
                 ELSE interior(h[k - 1], h[k], m[k - 1], m[k]) >>
         \o dkFrom(h, m, k + 1)

\* the derivatives at the stops, from the steps h
derivatives(ys, h) == dkFrom(h, mk(ys, h), 1)

find_derivatives(xs, ys) == derivatives(ys, hk(xs))

Lcm(a, b) == IF a = b THEN a ELSE MagMul(a, MagDivMod(b, MagGcd(a, b)).q)

\* the least common denominator of c[i], c[i+1], ...
RECURSIVE DenFrom(_, _)
DenFrom(c, i) == IF i > Len(c) THEN <<1>> ELSE Lcm(c[i].d, DenFrom(c, i + 1))

\* the numerators of c[i], c[i+1], ... over d
RECURSIVE NumFrom(_, _, _)
NumFrom(c, d, i) ==
    IF i > Len(c) THEN <<>>
    ELSE <<ZMulMag(c[i].n, MagDivMod(d, c[i].d).q)>> \o NumFrom(c, d, i + 1)

Over(c, d) == [den |-> d, num |-> NumFrom(c, d, 1)]

\* <<c1, c2, c3, c4>> over one denominator: [num |-> <<n1, n2, n3, n4>>, den |-> d]
\* with ck = nk / d
CommonDen(c) == Over(c, DenFrom(c, 1))

\* the cubic of a segment, highest power first (CubicHermiteSpline):
\* t / h, (m - d0) / h - t, d0, y, with t = (d0 + d1 - 2 m) / h
Cubic(y, h, m, d0, t) ==
    CommonDen(<< Reduce(RDiv(t, h)), Reduce(RSub(RDiv(RSub(m, d0), h), t)), d0, Rat(y, 1) >>)

RECURSIVE cFrom(_, _, _, _, _)
cFrom(ys, h, m, dk, i) ==
    IF i > Len(m) \/ i >= Len(dk) THEN <<>>
    ELSE << Cubic(ys[i], h[i], m[i], dk[i],
                  Reduce(RDiv(RSub(RAdd(dk[i], dk[i + 1]), RMul(Rat(2, 1), m[i])), h[i]))) >>
         \o cFrom(ys, h, m, dk, i + 1)

CubicHermiteSpline(xs, ys, h, dk) == [xs |-> xs, c |-> cFrom(ys, h, mk(ys, h), dk, 1)]

\* PchipInterpolator(x, y)
interpolate(xs, ys) == CubicHermiteSpline(xs, ys, hk(xs), find_derivatives(xs, ys))

\* the segment of xp: the last i with xs[i] <= xp, the first or last segment outside
RECURSIVE Segment(_, _, _)
Segment(xs, xp, i) ==
    IF i >= Len(xs) - 1 \/ RLess(xp, xs[i + 1]) THEN i ELSE Segment(xs, xp, i + 1)

\* ((c1 s + c2) s + c3) s + c4 for s = s.n / s.d, the ck over c.den, with the
\* powers sd2 and sd3 of s.d
Poly(c, s, sd2, sd3) ==
    [n |-> ZAdd(ZMul(ZAdd(ZMul(ZAdd(ZMul(c.num[1], s.n), ZMulMag(c.num[2], s.d)), s.n),
                          ZMulMag(c.num[3], sd2)), s.n),
                ZMulMag(c.num[4], sd3)),
     d |-> MagMul(c.den, sd3)]

Cube(c, s, sd2) == Poly(c, s, sd2, MagMul(sd2, s.d))

Horner(c, s) == Cube(c, s, MagMul(s.d, s.d))

\* the cubic of segment i at xp - xs[i]
At(ip, xp, i) == Horner(ip.c[i], RSub(xp, ip.xs[i]))

\* ip(xp)
Eval(ip, xp) == At(ip, xp, Segment(ip.xs, xp, 1))


(* ---------------- the sampled channels (palette.py line 24) ---------------- *)

Rows == 128
Cols == 8
Samples == 1024

\* the loops exchanged: j = row + 128 * col
ColumnMajor(r, c) == r + Rows * c

\* j = col + 8 * row
Index(r, c) == c + Cols * r

\* the channels in the order blue, green, red
PackBGR(red, green, blue) ==
    ZAdd(ZAdd(ZAdd(ZOf(blue), ZMul(ZOf(256), ZOf(green))),
              ZMul(ZOf(65536), ZOf(red))),
         ZMul(ZOf(255), ZOf(16777216)))

\* the alpha term left out
PackNoAlpha(red, green, blue) ==
    ZAdd(ZAdd(ZOf(red), ZMul(ZOf(256), ZOf(green))), ZMul(ZOf(65536), ZOf(blue)))

Clamp(v) == Max(0, Min(255, v))

\* the channels clamped to 0..255 before they are packed
PackClamped(red, green, blue) ==
    ZAdd(ZAdd(ZAdd(ZOf(Clamp(red)), ZMul(ZOf(256), ZOf(Clamp(green)))),
              ZMul(ZOf(65536), ZOf(Clamp(blue)))),
         ZMul(ZOf(255), ZOf(16777216)))

\* int(ir(j/1024)) + 2**8 * int(ig(j/1024)) + 2**16 * int(ib(j/1024)) + 255 * 2**24
Pack(red, green, blue) ==
    ZAdd(ZAdd(ZAdd(ZOf(red), ZMul(ZOf(256), ZOf(green))),
              ZMul(ZOf(65536), ZOf(blue))),
         ZMul(ZOf(255), ZOf(16777216)))

(* ---------------- text (palette.py lines 20, 26-28) ---------------- *)

HexDigits == <<"0", "1", "2", "3", "4", "5", "6", "7", "8", "9", "a", "b", "c", "d", "e", "f">>

RECURSIVE HexMag(_)

\* the digits of the quotient, then the digit of the remainder
HexDigit(dm) == HexMag(dm.q) \o <<HexDigits[dm.r + 1]>>

HexMag(m) == IF m = <<>> THEN <<>> ELSE HexDigit(MagDivSmall(m, 16))

Upper(ch) ==
    IF ch = "a" THEN "A" ELSE IF ch = "b" THEN "B" ELSE IF ch = "c" THEN "C"
    ELSE IF ch = "d" THEN "D" ELSE IF ch = "e" THEN "E" ELSE IF ch = "f" THEN "F"
    ELSE ch

\* format(c, "X"): uppercase digits
HexUpper(c) ==
    IF c.s = 0 THEN <<"0">>
    ELSE (IF c.s < 0 THEN <<"-">> ELSE <<>>)
         \o [i \in 1..Len(HexMag(c.m)) |-> Upper(HexMag(c.m)[i])]

\* format(c, "x"): lowercase, no padding, a minus sign before a negative value
Hex(c) ==
    IF c.s = 0 THEN <<"0">>
    ELSE (IF c.s < 0 THEN <<"-">> ELSE <<>>) \o HexMag(c.m)

\* f"0x{colour:x},": no space after the comma
LiteralTight(c) == <<"0", "x">> \o Hex(c) \o <<",">>

\* f"0x{colour:x}, "
Literal(c) == <<"0", "x">> \o Hex(c) \o <<",", " ">>

Header ==
    << "c", "o", "n", "s", "t", " ", "P", "A", "L", "E", "T", "T", "E", ":", " ",
       "[", "u", "3", "2", ";", " ", "1", "0", "2", "4", "]", " ", "=", " ", "[" >>

Newline == <<"\n">>

Closing == <<"]", ";">>

(* ---------------- the program ---------------- *)

VARIABLES
    ir, ig, ib,   \* the three interpolators
    pc,           \* the statement the process is at
    raised,       \* an I/O error was raised there and is propagating: the process ended
    f,            \* the file object: "none" before open, "open", "closed"
    palette_txt,  \* the content of palette.txt: the chunks written, each a sequence of characters
    row, col, j,  \* the loop variables and the sample index
    sample,       \* <<ir(j/1024), ig(j/1024), ib(j/1024)>>, before int()
    colour,       \* the packed word of the sample
    colours,      \* the set of distinct packed words
    stdout,       \* what print has written
    run,          \* the number of this run of the script
    last_txt,     \* palette.txt and the output as the previous complete run left them
    last_stdout

vars == << ir, ig, ib, pc, raised, f, palette_txt, row, col, j, sample, colour, colours,
           stdout, run, last_txt, last_stdout >>

MaxRuns == 2

\* what palette.txt may hold before a run: nothing, or an unrelated text
Stale == << <<"s", "t", "a", "l", "e">>, <<"\n">> >>
Priors == { <<>>, Stale }

\* whether an I/O call succeeds
Outcomes == BOOLEAN

\* int(v)
int(v) == Trunc(v)

\* the truncated channel values <<red, green, blue>> of the sample
channels == <<int(sample[1]), int(sample[2]), int(sample[3])>>

\* a process starts: lines 9-18, with palette.txt holding content
Start(content, pcv, rv, fv, txt, r, c, jv, sv, cv, cs, out) ==
    /\ pcv = "open"
    /\ rv = FALSE
    /\ fv = "none"
    /\ txt = content
    /\ r = 0 /\ c = 0 /\ jv = 0
    /\ sv = <<Rat(0, 1), Rat(0, 1), Rat(0, 1)>>
    /\ cv = ZOf(0)
    /\ cs = {}
    /\ out = <<>>

Init ==
    /\ ir = interpolate(x, yr)
    /\ ig = interpolate(x, yg)
    /\ ib = interpolate(x, yb)
    /\ \E content \in Priors :
         Start(content, pc, raised, f, palette_txt, row, col, j, sample, colour, colours, stdout)
    /\ run = 1
    /\ last_txt = <<>>
    /\ last_stdout = <<>>

\* the content of a file opened with mode "a"
OpenA(content) == content

\* the content of a file opened with mode "w"
OpenW(content) == <<>>

\* colours = {colour}
Replace(set, c) == {c}

\* colours.add(colour)
Add(set, c) == set \cup {c}

\* f.write(s) on a file opened without a with block: an error leaves it open
WriteLeak(s, ok) ==
    IF ok
    THEN /\ palette_txt' = Append(palette_txt, s)
         /\ UNCHANGED <<f, raised>>
    ELSE /\ palette_txt' = palette_txt
         /\ f' = f
         /\ raised' = TRUE

\* f.write(s): the text is appended, or the error leaves the with block, which
\* closes the file; the next statement is reached only after a successful write
Write(s, ok) ==
    IF ok
    THEN /\ palette_txt' = Append(palette_txt, s)
         /\ UNCHANGED <<f, raised>>
    ELSE /\ palette_txt' = palette_txt
         /\ f' = "closed"
         /\ raised' = TRUE

\* with open("palette.txt", "w") as f:
Open ==
    /\ pc = "open" /\ ~raised
    /\ \E ok \in Outcomes :
         IF ok
         THEN /\ palette_txt' = OpenW(palette_txt)
              /\ f' = "open"
              /\ pc' = "header"
              /\ UNCHANGED raised
         ELSE /\ raised' = TRUE
              /\ UNCHANGED <<palette_txt, f, pc>>
    /\ UNCHANGED <<ir, ig, ib, row, col, j, sample, colour, colours, stdout,
                   run, last_txt, last_stdout>>

\* f.write("const PALETTE: [u32; 1024] = ["), then the loops start
WriteHeader ==
    /\ pc = "header" /\ ~raised
    /\ \E ok \in Outcomes :
         /\ Write(Header, ok)
         /\ IF ok THEN pc' = "literal" /\ row' = 0 /\ col' = 0
                  ELSE UNCHANGED <<pc, row, col>>
    /\ UNCHANGED <<ir, ig, ib, j, sample, colour, colours, stdout, run, last_txt, last_stdout>>

\* the loop body, v being the three interpolated values at j/1024, then the
\* step of the inner loop
Emit(v) ==
    /\ j' = Index(row, col)
    /\ sample' = v
    /\ colour' = Pack(int(v[1]), int(v[2]), int(v[3]))
    /\ colours' = Add(colours, colour')
    /\ \E ok \in Outcomes :
         /\ Write(Literal(colour'), ok)
         /\ IF ok /\ col + 1 < Cols THEN col' = col + 1 /\ pc' = "literal"
            ELSE IF ok THEN col' = col /\ pc' = "newline"
            ELSE UNCHANGED <<pc, col>>
    /\ UNCHANGED <<ir, ig, ib, row, stdout, run, last_txt, last_stdout>>

\* <<ir(xp), ig(xp), ib(xp)>>
Sampled(xp) == <<Eval(ir, xp), Eval(ig, xp), Eval(ib, xp)>>

\* the three interpolated values at j/1024
Interpolated(jj) == Sampled(Rat(jj, Samples))

WriteLiteral ==
    /\ pc = "literal" /\ ~raised
    /\ Emit(Interpolated(Index(row, col)))

\* f.write("\n"), then the step of the outer loop
WriteNewline ==
    /\ pc = "newline" /\ ~raised
    /\ \E ok \in Outcomes :
         /\ Write(Newline, ok)
         /\ IF ok /\ row + 1 < Rows THEN row' = row + 1 /\ col' = 0 /\ pc' = "literal"
            ELSE IF ok THEN pc' = "closing" /\ UNCHANGED <<row, col>>
            ELSE UNCHANGED <<pc, row, col>>
    /\ UNCHANGED <<ir, ig, ib, j, sample, colour, colours, stdout, run, last_txt, last_stdout>>

\* f.write("];"), then the with block closes the file
WriteClosing ==
    /\ pc = "closing" /\ ~raised
    /\ \E ok \in Outcomes :
         /\ Write(Closing, ok)
         /\ IF ok THEN pc' = "print" ELSE UNCHANGED pc
    /\ UNCHANGED <<ir, ig, ib, row, col, j, sample, colour, colours, stdout,
                   run, last_txt, last_stdout>>

\* the with block is left after the last write: the file is closed; then
\* print(len(colours))
PrintCount ==
    /\ pc = "print" /\ ~raised
    /\ f' = "closed"
    /\ stdout' = Append(stdout, Cardinality(colours))
    /\ pc' = "done"
    /\ UNCHANGED <<ir, ig, ib, raised, palette_txt, row, col, j, sample, colour, colours,
                   run, last_txt, last_stdout>>

\* the script is run again, in a new process; palette.txt is what the last run
\* left, or has been replaced meanwhile
Rerun ==
    /\ pc = "done" /\ run < MaxRuns
    /\ run' = run + 1
    /\ last_txt' = palette_txt
    /\ last_stdout' = stdout
    /\ ir' = interpolate(x, yr)
    /\ ig' = interpolate(x, yg)
    /\ ib' = interpolate(x, yb)
    /\ \E content \in Priors \cup {palette_txt} :
         Start(content, pc', raised', f', palette_txt', row', col', j', sample', colour',
               colours', stdout')

Next ==
    \/ Open
    \/ WriteHeader
    \/ WriteLiteral
    \/ WriteNewline
    \/ WriteClosing
    \/ PrintCount
    \/ Rerun

Spec == Init /\ [][Next]_vars

(* ---------------- the packing expression on its own ---------------- *)

\* channel values handed to the packing expression, in and out of 0..255
ProbeValues == {-256, -1, 0, 255, 256}

MaxProbes == 1

\* the file is open and the header written; nothing is sampled yet
InitPack ==
    /\ ir = interpolate(x, yr)
    /\ ig = interpolate(x, yg)
    /\ ib = interpolate(x, yb)
    /\ pc = "literal"
    /\ raised = FALSE
    /\ f = "open"
    /\ palette_txt = <<Header>>
    /\ row = 0 /\ col = 0 /\ j = 0
    /\ sample = <<Rat(0, 1), Rat(0, 1), Rat(0, 1)>>
    /\ colour = ZOf(0)
    /\ colours = {}
    /\ stdout = <<>>
    /\ run = 1
    /\ last_txt = <<>>
    /\ last_stdout = <<>>

\* the loop body on interpolated values that int() takes to the probe values
Probe ==
    /\ pc = "literal" /\ ~raised
    /\ Len(palette_txt) <= MaxProbes
    /\ \E red \in ProbeValues, green \in ProbeValues, blue \in ProbeValues :
         Emit(<<Rat(red, 1), Rat(green, 1), Rat(blue, 1)>>)

NextPack == Probe

SpecPack == InitPack /\ [][NextPack]_vars

(* ---------------- reading palette.txt back ---------------- *)

\* a chunk written by line 26
IsLiteral(chunk) == Len(chunk) >= 2 /\ chunk[1] = "0" /\ chunk[2] = "x"

\* the literals in the file, in the order written
Emitted == SelectSeq(palette_txt, IsLiteral)

LastOf(s) == s[Len(s)]

DigitValue(ch) == CHOOSE v \in 0..15 : HexDigits[v + 1] = ch

\* the value of the first n hexadecimal digits of d
RECURSIVE ParseHex(_, _)
ParseHex(d, n) ==
    IF n = 0 THEN <<>>
    ELSE MagAdd(Scale(ParseHex(d, n - 1), 16), MagOf(DigitValue(d[n])))

Signed(neg, mag) == [s |-> IF mag = <<>> THEN 0 ELSE IF neg THEN -1 ELSE 1, m |-> mag]

\* int(h, 16)
WordOfHex(h) ==
    IF h # <<>> /\ h[1] = "-" THEN Signed(TRUE, ParseHex(Tail(h), Len(h) - 1))
    ELSE Signed(FALSE, ParseHex(h, Len(h)))

\* the word a literal "0x<hex>, " denotes
WordOf(lit) == WordOfHex(SubSeq(lit, 3, Len(lit) - 2))

\* w div 256^n, rounding down
RECURSIVE ShiftRight(_, _)
ShiftRight(w, n) == IF n = 0 THEN w ELSE ShiftRight(ZFloorDiv(w, 256), n - 1)

\* byte n of w, byte 0 being the least significant
Byte(w, n) == ZMod(ShiftRight(w, n), 256)

InByte(v) == v \in 0..255

\* red + 256*green + 65536*blue + 255*16777216
Word(ch) ==
    ZAdd(ZOf(ch[1] + 256 * ch[2] + 65536 * ch[3]), ZMul(ZOf(255), ZOf(16777216)))

\* a sample has been packed in this run
Packed == colours # {}

\* the characters of the file
RECURSIVE Flat(_, _, _)
Flat(chunks, lo, hi) ==
    IF lo > hi THEN <<>>
    ELSE IF lo = hi THEN chunks[lo]
    ELSE Flat(chunks, lo, (lo + hi) \div 2) \o Flat(chunks, (lo + hi) \div 2 + 1, hi)

Text == Flat(palette_txt, 1, Len(palette_txt))

Newlines(t) == {i \in 1..Len(t) : t[i] = "\n"}

\* where a literal starts
TokenStarts(t) == {i \in 1..(Len(t) - 1) : t[i] = "0" /\ t[i + 1] = "x"}

HexChars == {HexDigits[i] : i \in 1..Len(HexDigits)}

\* the number of literals that start at or before i
Ordinal(ts, i) == Cardinality({s \in ts : s <= i})

(* ---------------- the order of the table ---------------- *)

\* the literals are the words of the samples at 0/1024, 1/1024, ... in this order
InOrder(lits) ==
    /\ Len(lits) = Samples
    /\ \A k \in 0..(Samples - 1) :
         WordOf(lits[k + 1]) = Word(<<int(Eval(ir, Rat(k, Samples))),
                                      int(Eval(ig, Rat(k, Samples))),
                                      int(Eval(ib, Rat(k, Samples)))>>)

\* C1: the loop samples j = 0, 1, ... 1023 once each and in this order, the
\* literal of sample j being the (j+1)-th written; a complete run has written
\* exactly 1024 literals, the k-th (from 0) being the packed colour at k/1024
C1_TableInSampleOrder ==
    /\ (Packed /\ ~raised) => j = Len(Emitted) - 1
    /\ pc = "done" => InOrder(Emitted)

C1_Witness == pc = "done" /\ j = Samples - 1 /\ Len(Emitted) = Samples

(* ---------------- the packed word ---------------- *)

\* C2: a sample with its three truncated channels in 0..255 is packed as
\* red + 256*green + 65536*blue + 255*16777216, a word below 2^32 whose bytes,
\* from the least significant, are red, green, blue and 255
C2_PackDecodes ==
    (Packed /\ \A c \in 1..3 : InByte(channels[c])) =>
        /\ colour = Word(channels)
        /\ <<Byte(colour, 0), Byte(colour, 1), Byte(colour, 2)>> = channels
        /\ ShiftRight(colour, 3) = ZOf(255)
        /\ colour.s = 1
        /\ MagCmp(colour.m, MagMul(MagOf(65536), MagOf(65536))) = -1

C2_Witness ==
    /\ Packed
    /\ channels[1] \in 1..255 /\ channels[2] \in 1..255 /\ channels[3] \in 1..255
    /\ channels[1] # channels[3]

\* C3: bits 24 to 31 of every literal in the file are 255; every literal is
\* the last one of the file in the state after its write
C3_AlphaOpaque ==
    Emitted # <<>> => Byte(WordOf(LastOf(Emitted)), 3) = 255

C3_Witness == Len(Emitted) = Samples /\ Byte(WordOf(LastOf(Emitted)), 3) = 255

(* ---------------- the text ---------------- *)

\* the literal that starts at i ends with the comma at c: lowercase digits
\* without padding, then ", "
TokenEnds(t, i, c) ==
    /\ t[c] = ","
    /\ t[c + 1] = " "
    /\ c > i + 2
    /\ \A k \in (i + 2)..(c - 1) : t[k] \in HexChars
    /\ (t[i + 2] = "0" => c = i + 3)

\* after the ", " of a literal comes the next literal, or the newline after
\* every eighth
TokenFollowed(t, ts, i, p) ==
    IF Ordinal(ts, i) % Cols = 0 THEN t[p] = "\n" ELSE p \in ts

\* the header and the first row share a line; every row is eight literals, each
\* followed by ", ", and a newline; the last line is "];"
Table(t, ts, nl) ==
    /\ SubSeq(t, 1, Len(Header)) = Header
    /\ Len(Header) + 1 \in ts
    /\ Cardinality(ts) = Samples
    /\ Cardinality(nl) = Rows
    /\ \A i \in ts : \E c \in (i + 3)..(Len(t) - 2) :
         TokenEnds(t, i, c) /\ TokenFollowed(t, ts, i, c + 2)
    /\ \A e \in nl : e + 1 \in ts \/ SubSeq(t, e + 1, Len(t)) = Closing

\* the header on a line of its own; every row is eight literals with ", "
\* between them, the last one followed by the newline; the last line is "];"
TableAsStated(t, ts, nl) ==
    /\ SubSeq(t, 1, Len(Header)) = Header
    /\ t[Len(Header) + 1] = "\n"
    /\ Cardinality(ts) = Samples
    /\ Cardinality(nl) = Rows + 1
    /\ \A e \in nl : e > Len(Header) + 1 => t[e - 1] \in HexChars
    /\ \A e \in nl : e + 1 \in ts \/ SubSeq(t, e + 1, Len(t)) = Closing

\* C4, as the code writes it: the header is followed on the same line by the
\* first row; each of the 128 rows is 8 lowercase unpadded 0x literals, every
\* one of them followed by ", " (the last of a row too), then a newline; "];"
\* closes the text
C4_TextFormat == pc = "done" => Table(Text, TokenStarts(Text), Newlines(Text))

C4_Witness == pc = "done" /\ f = "closed" /\ Cardinality(Newlines(Text)) = Rows

\* C4 as stated: the header on a line of its own, the literals of a row
\* separated by ", " and the row ended by a newline
C4_AsStated == pc = "done" => TableAsStated(Text, TokenStarts(Text), Newlines(Text))

(* ---------------- the first sample ---------------- *)

\* v = n exactly
Exactly(v, n) == RCmp(v, Rat(n, 1)) = 0

\* C5: at position 0 the interpolators return the first stop's values 0, 7
\* and 100 exactly; sample 0 is packed as 0xff640700, the first literal of the
\* file
C5_FirstSample ==
    /\ Exactly(Eval(ir, x[1]), 0) /\ Exactly(Eval(ig, x[1]), 7) /\ Exactly(Eval(ib, x[1]), 100)
    /\ (Packed /\ j = 0) =>
         /\ channels = <<0, 7, 100>>
         /\ colour = WordOfHex(<<"f", "f", "6", "4", "0", "7", "0", "0">>)
    /\ Emitted # <<>> =>
         SubSeq(Emitted[1], 1, 10) = <<"0", "x", "f", "f", "6", "4", "0", "7", "0", "0">>

C5_Witness ==
    /\ Packed /\ j = 0 /\ ~raised
    /\ Len(palette_txt) = 2 /\ IsLiteral(palette_txt[2])

(* ---------------- no overshoot ---------------- *)

Stops == <<yr, yg, yb>>

\* v is not below the smaller and not above the larger of a and b
Between(v, a, b) == RLeq(Rat(Min(a, b), 1), v) /\ RLeq(v, Rat(Max(a, b), 1))

\* xp lies in the segment from stop i to stop i + 1
Brackets(i, xp) == RLeq(x[i], xp) /\ RLeq(xp, x[i + 1])

\* C6: every interpolated value lies between the values of the two stops that
\* bracket its position, and every truncated channel in 0..255
C6_NoOvershoot ==
    Packed =>
        \A c \in 1..3 :
            /\ \A i \in 1..(Len(x) - 1) :
                 Brackets(i, Rat(j, Samples)) =>
                     Between(sample[c], Stops[c][i], Stops[c][i + 1])
            /\ InByte(channels[c])

\* a sample strictly inside a segment, its red strictly between the red of the
\* two stops
C6_Witness ==
    /\ Packed /\ j = 100
    /\ RLess(Rat(0, 1), sample[1]) /\ RLess(sample[1], Rat(32, 1))
    /\ channels[1] \in 1..31

(* ---------------- the distinct-colour count ---------------- *)

Distinct(lits) == Cardinality({lits[k] : k \in 1..Len(lits)})

\* C7: nothing is printed before the table is complete; a complete run has
\* printed once, the number of distinct literals among the 1024 of the file, a
\* number from 1 to 1024; the literal written for a sample is the word of its
\* channels, whatever the set holds
C7_CountPrinted ==
    /\ pc # "done" => stdout = <<>>
    /\ (Packed /\ ~raised) => WordOf(LastOf(Emitted)) = Word(channels)
    /\ pc = "done" =>
         /\ Len(Emitted) = Samples
         /\ Len(stdout) = 1
         /\ stdout[1] = Distinct(Emitted)
         /\ stdout[1] \in 1..Samples

C7_Witness == pc = "done" /\ stdout = <<881>>

(* ---------------- running again ---------------- *)

\* C8: the file is empty once it is open, whatever it held before; a complete
\* run leaves the file and the output that the complete run before it left
C8_RerunIdentical ==
    /\ (f = "open" /\ pc = "header") => palette_txt = <<>>
    /\ (pc = "done" /\ run > 1) => palette_txt = last_txt /\ stdout = last_stdout

C8_Witness == pc = "done" /\ run = MaxRuns /\ Len(last_txt) > Samples /\ Len(last_stdout) = 1

(* ---------------- channels out of range ---------------- *)

\* what the terms above channel c alone make of the bits above its byte
Intended(ch, c) ==
    IF c = 1 THEN ch[2] + 256 * ch[3] + 65536 * 255
    ELSE IF c = 2 THEN ch[3] + 256 * 255
    ELSE 255

\* the bits above the byte of channel c are not the intended ones
Corrupted(w, ch, c) == ShiftRight(w, c) # ZOf(Intended(ch, c))

NoClamp ==
    /\ colour = Word(channels)
    /\ ~raised => WordOf(LastOf(palette_txt)) = colour

OwnChunks ==
    IF f = "none" \/ pc \in {"open", "header"} THEN 0
    ELSE IF pc = "literal" THEN 1 + (Cols + 1) * row + col
    ELSE IF pc = "newline" THEN 1 + (Cols + 1) * row + col + 1
    ELSE 1 + (Cols + 1) * Rows

\* the error ended the process: the file is not open, nothing is printed
Propagated ==
    /\ pc \notin {"print", "done"}
    /\ stdout = <<>>
    /\ f # "open"

AfterError ==
    raised =>
        /\ Propagated
        /\ f = "closed" =>
             /\ Len(palette_txt) = OwnChunks
             /\ palette_txt # <<>> => palette_txt[1] = Header /\ LastOf(palette_txt) # Closing
        /\ f = "none" => pc = "open" /\ palette_txt \in Priors \cup {last_txt}

\* no step is taken after an error, and the failing call writes nothing
ErrorStep == ~raised /\ (raised' => palette_txt' = palette_txt /\ stdout' = stdout)

\* C10, as the code behaves: an error ends the run at the failing call, which
\* writes nothing; the file is closed if it was opened, nothing is printed; after
\* a failed write the file holds the chunks written before it and no "];", after
\* a failed open it holds what it held before the run
C10_ErrorPropagates == []AfterError /\ [][ErrorStep]_vars

\* a write fails in the middle of a row
C10_Witness ==
    /\ raised /\ f = "closed" /\ pc = "literal"
    /\ row = 64 /\ col = 3
    /\ Len(palette_txt) = OwnChunks

\* C10 as stated: after any failed call the file holds only what this run wrote
\* before the failure
C10_AsStated == raised => Propagated /\ Len(palette_txt) = OwnChunks

====
